---- MODULE Spec2Model ----
(***************************************************************************)
(* Model of the Contentful -> Slack webhook listener (src/index.js).       *)
(*                                                                         *)
(* One Node.js process serves every request.  A request handler runs to    *)
(* its first network wait without interruption (JavaScript is              *)
(* run-to-completion and promise reactions are microtasks), so an action   *)
(* of the model is one such run: the handler up to its first outbound      *)
(* call, or the reaction to one network response up to the next outbound   *)
(* call or the HTTP response.  Between two such runs the handlers of       *)
(* other requests may run, and they share the module-level variables.      *)
(***************************************************************************)
EXTENDS Naturals, Sequences, FiniteSets, TLC

\* Number of requests the process receives in one behaviour.
MaxReq == 2

\* JavaScript's undefined; it prints as "undefined" in string concatenation.
Undefined == "undefined"

Reqs == 1 .. MaxReq

----------------------------------------------------------------------------
(* Inputs *)

\* Identifiers the inbound payloads and headers are drawn from.  The entity
\* id, space id, webhook name and topic of the n-th request are the n-th of
\* each list: consecutive requests are for different spaces, the first and
\* the third for the same one.
EntityIds    == <<"E1", "E2", "E3", "E4">>
SpaceIds     == <<"S1", "S2", "S1", "S2">>
WebhookNames == <<"W1", "W2", "W3", "W4">>
Topics       == <<"entry.publish", "entry.auto_save", "entry.unpublish", "entry.delete">>
\* The user id the n-th request's body carries when it has sys.updatedBy, and
\* the one the management API reports when the n-th request looks it up.
BodyUserIds   == <<"U1", "U2", "U1", "U2">>
LookupUserIds == <<"U2", "U1", "U2", "U1">>

\* body.fields: a list of keys in insertion order (the order of for..in), each
\* with its locale map; a locale the map lacks reads as undefined.
NoFields  == << >>
TwoFields == << [key |-> "title", locales |-> [enUS |-> "Hello", deDE |-> "Hallo"]],
                [key |-> "body",  locales |-> [enUS |-> "World", deDE |-> Undefined]] >>
NoEnUS    == << [key |-> "slug",  locales |-> [enUS |-> Undefined, deDE |-> "Welt"]] >>
FieldMaps == {NoFields, TwoFields, NoEnUS}

\* body.sys of a body that has no sys property.
NoSys == [defined |-> FALSE, id |-> Undefined, space |-> Undefined,
          type |-> Undefined, updatedBy |-> Undefined]

\* Value of the module-level variable body before the first request.
NoBody == [sys |-> NoSys, fields |-> << >>]

\* Well-formed payloads: sys.id, sys.space.sys.id and sys.type are present;
\* sys.updatedBy is present only for actions made through the management API.
EntryBodies(n) ==
  { [sys |-> [defined |-> TRUE, id |-> EntityIds[n], space |-> SpaceIds[n],
              type |-> "Entry", updatedBy |-> u],
     fields |-> f] : u \in {BodyUserIds[n], Undefined}, f \in FieldMaps }

OtherBodies(n) ==
  { [sys |-> [defined |-> TRUE, id |-> EntityIds[n], space |-> SpaceIds[n],
              type |-> tf[1], updatedBy |-> Undefined],
     fields |-> tf[2]] : tf \in {<<"Asset", TwoFields>>, <<"ContentType", NoEnUS>>} }

\* Malformed payloads: no sys at all, or a sys without space.
MalformedBodies(n) ==
  { [sys |-> NoSys, fields |-> << >>],
    [sys |-> [defined |-> TRUE, id |-> EntityIds[n], space |-> Undefined,
              type |-> "Entry", updatedBy |-> Undefined],
     fields |-> << >>] }

\* The n-th inbound HTTP request: parsed JSON body and the two headers read.
Requests(n) ==
  { [body |-> b, webhook_name |-> WebhookNames[n], webhook_topic |-> Topics[n]] :
      b \in EntryBodies(n) \cup OtherBodies(n) \cup MalformedBodies(n) }

NoRequest == [body |-> NoBody, webhook_name |-> Undefined, webhook_topic |-> Undefined]

\* response.data.items of GET users/
User(i, f, l) == [id |-> i, firstName |-> f, lastName |-> l]
UserCollections ==
  { << >>,
    << User("U1", "Ada", "Lovelace") >>,
    << User("U2", "Alan", "Turing"), User("U1", "Ada", "Lovelace"),
       User("U1", "Grace", "Hopper") >> }

----------------------------------------------------------------------------
(* State *)

VARIABLES
  body,                   \* module-level, line 31
  type,                   \* module-level, line 31 (never assigned)
  id,                     \* module-level, line 31 (never assigned)
  cmaURL,                 \* module-level, line 31
  contentfulDeeplinkURL,  \* module-level, line 31
  slackMessageTemplate,   \* module-level, line 31
  request,                \* request[r]: the inbound request r, once received
  pc,                     \* pc[r]: where request r's handler / promise chain is
  userId,                 \* userId[r]: value the chain passes to getUserName
  calls,                  \* calls[r]: outbound HTTP calls issued for r, in order
  posted,                 \* posted[r]: the JSON bodies r's chain POSTed to slack
  response,               \* response[r]: status and text sent to r's caller
  logged,                 \* logged[r]: the catch handler ran and logged for r
  miss,                   \* miss[r]: r's users response held no user with r's id
  usersData               \* usersData[r]: response.data.items of r's users GET

vars == <<body, type, id, cmaURL, contentfulDeeplinkURL, slackMessageTemplate,
          request, pc, userId, calls, posted, response, logged, miss,
          usersData>>

NoResponse == [status |-> 0, text |-> ""]

NoTemplate ==
  [username |-> Undefined, icon_emoji |-> Undefined,
   attachments |-> << [fallback |-> "", pretext |-> "", color |-> Undefined,
                       fields |-> << >>] >>]

Init ==
  /\ body = NoBody
  /\ type = Undefined
  /\ id = Undefined
  /\ cmaURL = Undefined
  /\ contentfulDeeplinkURL = Undefined
  /\ slackMessageTemplate = NoTemplate
  /\ request = [r \in Reqs |-> NoRequest]
  /\ pc = [r \in Reqs |-> "idle"]
  /\ userId = [r \in Reqs |-> Undefined]
  /\ calls = [r \in Reqs |-> << >>]
  /\ posted = [r \in Reqs |-> << >>]
  /\ response = [r \in Reqs |-> NoResponse]
  /\ logged = [r \in Reqs |-> FALSE]
  /\ miss = [r \in Reqs |-> FALSE]
  /\ usersData = [r \in Reqs |-> << >>]

----------------------------------------------------------------------------
(* Pure parts of the handler *)

\* Maps URL fragments to types; a key the map lacks reads as undefined.
typeUrlMap(t) ==
  CASE t = "Entry"       -> "entries"
    [] t = "Asset"       -> "assets"
    [] t = "ContentType" -> "content_types"
    [] OTHER             -> Undefined

\* process.env.slackURL
slackURL == "https://hooks.slack.example/services/T"

\* An axios call as issued: what it is, where it goes, how it ended so far.
Call(kind, url) == [kind |-> kind, url |-> url, status |-> "pending"]

\* The handler reads body.sys.id and body.sys.space.sys.id before anything
\* else; either read throws a TypeError when the parent object is missing.
PayloadReadsThrow(b) == ~b.sys.defined \/ b.sys.space = Undefined

\* Mutant of Filtered: the filter lets assets through.
FilteredOnlyContentType(t) == t = "ContentType"

\* We only want to post to slack if an entry is changed.
Filtered(t) == t # "Entry"

CmaURL(spaceId) == "https://api.contentful.com/spaces/" \o spaceId \o "/"

DeeplinkURL(spaceId, t, i) ==
  "https://app.contentful.com/spaces/" \o spaceId \o "/" \o typeUrlMap(t) \o "/" \o i

\* Message template following the slack specification.
Template(webhook_name, webhook_topic) ==
  [username   |-> "Webhook: " \o webhook_name,
   icon_emoji |-> ":contentful:",
   attachments |-> << [fallback |-> "", pretext |-> "", color |-> "#000000",
                       fields |-> << [title |-> "Action applied to Entry",
                                      value |-> webhook_topic,
                                      short |-> FALSE] >>] >>]

\* Mutant of getUserId: the entity is looked up also when the body has the id.
getUserIdAlwaysAsks(b, url, t, i) ==
  [resolved |-> FALSE, id |-> Undefined,
   call |-> << Call("entity", url \o typeUrlMap(t) \o "/" \o i) >>]

\* getUserId: the id in the body when it has one, else a GET of the entity.
\* b, url, t and i are the module-level body, cmaURL, type and id it reads.
getUserId(b, url, t, i) ==
  IF b.sys.updatedBy # Undefined
  THEN [resolved |-> TRUE, id |-> b.sys.updatedBy,
        call |-> << >>]
  ELSE [resolved |-> FALSE, id |-> Undefined,
        call |-> << Call("entity", url \o typeUrlMap(t) \o "/" \o i) >>]

\* getUserName: the GET of the space's users it issues.
getUserName(url) == Call("users", url \o "users/")

\* Mutant of Filter: the matching users come out last first.
RECURSIVE FilterLastFirst(_, _)
FilterLastFirst(items, uid) ==
  IF items = << >> THEN << >>
  ELSE FilterLastFirst(Tail(items), uid)
       \o (IF Head(items).id = uid THEN << Head(items) >> ELSE << >>)

\* response.data.items.filter(user => user.sys.id == userId)
RECURSIVE Filter(_, _)
Filter(items, uid) ==
  IF items = << >> THEN << >>
  ELSE (IF Head(items).id = uid THEN << Head(items) >> ELSE << >>)
       \o Filter(Tail(items), uid)

\* Mutant of UserNameOf: a missing user yields a name instead of throwing.
UserNameOfMissingUser(items, uid) ==
  LET users == Filter(items, uid)
  IN  IF users = << >>
      THEN [threw |-> FALSE, userName |-> Undefined \o " " \o Undefined]
      ELSE [threw |-> FALSE,
            userName |-> users[1].firstName \o " " \o users[1].lastName]

\* getUserName's reaction to the users response: users[0] of an empty filter
\* result is undefined and reading its firstName throws.
UserNameOf(items, uid) ==
  LET users == Filter(items, uid)
  IN  IF users = << >>
      THEN [threw |-> TRUE, userName |-> Undefined]
      ELSE [threw |-> FALSE,
            userName |-> users[1].firstName \o " " \o users[1].lastName]

\* The for..in loop of postToSlack: one push per key of b.fields onto the
\* fields of the template's attachment.
RECURSIVE AppendFields(_, _)
AppendFields(fields, bodyFields) ==
  IF bodyFields = << >> THEN fields
  ELSE AppendFields(
         Append(fields, [title |-> "field." \o Head(bodyFields).key,
                         value |-> Head(bodyFields).locales.enUS,
                         short |-> FALSE]),
         Tail(bodyFields))

SlackText(userName, deeplink, t) ==
  "An Entry has just been changed by " \o userName
    \o ". The full Entry is below in the fields. Here is the link to the entry: <"
    \o deeplink \o "|Link to " \o t \o ">"

\* postToSlack up to the axios call: the template as it leaves the function,
\* or a TypeError when the module-level body has no sys.
postToSlack(userName, b, deeplink, tpl) ==
  IF ~b.sys.defined
  THEN [threw |-> TRUE, template |-> tpl]
  ELSE LET message == SlackText(userName, deeplink, b.sys.type)
           att     == tpl.attachments[1]
       IN  [threw |-> FALSE,
            template |->
              [tpl EXCEPT !.attachments =
                 << [att EXCEPT !.fields   = AppendFields(att.fields, b.fields),
                                !.fallback = message,
                                !.pretext  = message] >>]]

\* JSON.stringify of one field object: a property whose value is undefined
\* is left out.
StringifyField(f) ==
  IF f.value = Undefined
  THEN [title |-> f.title, short |-> f.short]
  ELSE [title |-> f.title, value |-> f.value, short |-> f.short]

\* JSON.stringify(slackMessageTemplate): a snapshot of the object by value.
JSONStringify(tpl) ==
  LET att == tpl.attachments[1]
  IN  [username |-> tpl.username, icon_emoji |-> tpl.icon_emoji,
       attachments |->
         << [fallback |-> att.fallback, pretext |-> att.pretext,
             color |-> att.color,
             fields |-> [k \in 1 .. Len(att.fields) |-> StringifyField(att.fields[k])]] >>]

----------------------------------------------------------------------------
(* Steps of the handler and of its promise chain *)

shared == <<body, cmaURL, contentfulDeeplinkURL, slackMessageTemplate>>

\* calls[r] with the outcome of its last (the only pending) call recorded.
Settled(r, outcome) ==
  [calls[r] EXCEPT ![Len(calls[r])] = [@ EXCEPT !.status = outcome]]

\* The chain of r ends: a response is sent to the caller.
Respond(r, cs, status, text, log) ==
  /\ calls' = [calls EXCEPT ![r] = cs]
  /\ response' = [response EXCEPT ![r] = [status |-> status, text |-> text]]
  /\ logged' = [logged EXCEPT ![r] = log]
  /\ pc' = [pc EXCEPT ![r] = "done"]

\* Mutant of Catch: the error is logged and no response is sent.
CatchOnlyLogs(r, cs) ==
  /\ calls' = [calls EXCEPT ![r] = cs]
  /\ logged' = [logged EXCEPT ![r] = TRUE]
  /\ pc' = [pc EXCEPT ![r] = "done"]
  /\ UNCHANGED response

\* .catch((error) => { console.log('error', error); response.status(500).send(error) })
Catch(r, cs) == Respond(r, cs, 500, "error", TRUE)

\* .then(() => { response.status(200).send('Slack post successful!') })
Success(r, cs) == Respond(r, cs, 200, "Slack post successful!", FALSE)

\* The chain of r goes on with one more outbound call and waits for it.
Await(r, cs, call, at) ==
  /\ calls' = [calls EXCEPT ![r] = Append(cs, call)]
  /\ pc' = [pc EXCEPT ![r] = at]
  /\ UNCHANGED <<response, logged>>

\* app.all('/'): the handler of request r, up to its first network wait.
Receive(r, rq) ==
  /\ pc[r] = "idle"
  /\ \A q \in Reqs : q < r => pc[q] # "idle"
  /\ request' = [request EXCEPT ![r] = rq]
  /\ body' = rq.body
  /\ UNCHANGED <<type, id, posted, miss, usersData>>
  /\ IF PayloadReadsThrow(rq.body)
     THEN \* the TypeError leaves the handler; no promise chain exists yet
          /\ pc' = [pc EXCEPT ![r] = "uncaught"]
          /\ UNCHANGED <<cmaURL, contentfulDeeplinkURL, slackMessageTemplate,
                         userId, calls, response, logged>>
     ELSE IF Filtered(rq.body.sys.type)
     THEN /\ Respond(r, calls[r], 200, "I am only posting entries to slack!", FALSE)
          /\ UNCHANGED <<cmaURL, contentfulDeeplinkURL, slackMessageTemplate, userId>>
     ELSE LET spaceId == rq.body.sys.space
              url     == CmaURL(spaceId)
              uid     == getUserId(rq.body, url, type, id)
          IN  /\ cmaURL' = url
              /\ contentfulDeeplinkURL' =
                   DeeplinkURL(spaceId, rq.body.sys.type, rq.body.sys.id)
              /\ slackMessageTemplate' = Template(rq.webhook_name, rq.webhook_topic)
              /\ userId' = [userId EXCEPT ![r] = uid.id]
              /\ IF uid.resolved
                 THEN Await(r, calls[r], getUserName(url), "awaitUsers")
                 ELSE Await(r, calls[r], uid.call[1], "awaitEntity")

\* Mutant of EntityResponse: a failed entity GET is issued once more.
EntityResponseRetries(r, ok, u) ==
  /\ pc[r] = "awaitEntity"
  /\ UNCHANGED <<shared, type, id, request, posted, miss, usersData>>
  /\ IF ok
     THEN /\ userId' = [userId EXCEPT ![r] = u]
          /\ Await(r, Settled(r, "ok"), getUserName(cmaURL), "awaitUsers")
     ELSE /\ UNCHANGED userId
          /\ IF Len(calls[r]) < 2
             THEN Await(r, Settled(r, "failed"),
                        Call("entity", calls[r][Len(calls[r])].url), "awaitEntity")
             ELSE Catch(r, Settled(r, "failed"))

\* The entity GET of r ends: with response.data.sys.updatedBy.sys.id = u, or
\* with an error.
EntityResponse(r, ok, u) ==
  /\ pc[r] = "awaitEntity"
  /\ UNCHANGED <<shared, type, id, request, posted, miss, usersData>>
  /\ IF ok
     THEN /\ userId' = [userId EXCEPT ![r] = u]
          /\ Await(r, Settled(r, "ok"), getUserName(cmaURL), "awaitUsers")
     ELSE /\ Catch(r, Settled(r, "failed"))
          /\ UNCHANGED userId

\* Mutant of UsersResponse: the promise of the POST is not returned to the
\* chain, so the success reaction runs while the POST is in flight.
UsersResponseNoWait(r, ok, items) ==
  /\ pc[r] = "awaitUsers"
  /\ UNCHANGED <<body, cmaURL, contentfulDeeplinkURL, type, id, request, userId>>
  /\ miss' = [miss EXCEPT ![r] = ok /\ \A k \in DOMAIN items : items[k].id # userId[r]]
  /\ usersData' = [usersData EXCEPT ![r] = IF ok THEN items ELSE << >>]
  /\ IF ~ok
     THEN /\ Catch(r, Settled(r, "failed"))
          /\ UNCHANGED <<slackMessageTemplate, posted>>
     ELSE LET name == UserNameOf(items, userId[r])
              post == postToSlack(name.userName, body, contentfulDeeplinkURL,
                                  slackMessageTemplate)
          IN  IF name.threw \/ post.threw
              THEN /\ Catch(r, Settled(r, "ok"))
                   /\ UNCHANGED <<slackMessageTemplate, posted>>
              ELSE /\ slackMessageTemplate' = post.template
                   /\ posted' = [posted EXCEPT
                                   ![r] = Append(@, JSONStringify(post.template))]
                   /\ Success(r, Append(Settled(r, "ok"), Call("slack", slackURL)))

\* The users GET of r ends: with response.data.items = items, or with an error.
UsersResponse(r, ok, items) ==
  /\ pc[r] = "awaitUsers"
  /\ UNCHANGED <<body, cmaURL, contentfulDeeplinkURL, type, id, request, userId>>
  /\ miss' = [miss EXCEPT ![r] = ok /\ \A k \in DOMAIN items : items[k].id # userId[r]]
  /\ usersData' = [usersData EXCEPT ![r] = IF ok THEN items ELSE << >>]
  /\ IF ~ok
     THEN /\ Catch(r, Settled(r, "failed"))
          /\ UNCHANGED <<slackMessageTemplate, posted>>
     ELSE LET name == UserNameOf(items, userId[r])
              post == postToSlack(name.userName, body, contentfulDeeplinkURL,
                                  slackMessageTemplate)
          IN  IF name.threw \/ post.threw
              THEN /\ Catch(r, Settled(r, "ok"))
                   /\ UNCHANGED <<slackMessageTemplate, posted>>
              ELSE /\ slackMessageTemplate' = post.template
                   /\ posted' = [posted EXCEPT
                                   ![r] = Append(@, JSONStringify(post.template))]
                   /\ Await(r, Settled(r, "ok"), Call("slack", slackURL), "awaitSlack")

\* Mutant of SlackResponse: the success reaction also runs when the POST failed.
SlackResponseIgnoresFailure(r, ok) ==
  /\ pc[r] = "awaitSlack"
  /\ UNCHANGED <<shared, type, id, request, userId, posted, miss, usersData>>
  /\ Success(r, Settled(r, IF ok THEN "ok" ELSE "failed"))

\* The POST to slack of r ends.
SlackResponse(r, ok) ==
  /\ pc[r] = "awaitSlack"
  /\ UNCHANGED <<shared, type, id, request, userId, posted, miss, usersData>>
  /\ IF ok THEN Success(r, Settled(r, "ok")) ELSE Catch(r, Settled(r, "failed"))

Next ==
  \/ \E r \in Reqs : \E rq \in Requests(r) : Receive(r, rq)
  \/ \E r \in Reqs : \E ok \in BOOLEAN : \E u \in {LookupUserIds[r]} :
       EntityResponse(r, ok, u)
  \/ \E r \in Reqs : \E ok \in BOOLEAN : \E items \in UserCollections :
       UsersResponse(r, ok, items)
  \/ \E r \in Reqs : \E ok \in BOOLEAN : SlackResponse(r, ok)

Spec == Init /\ [][Next]_vars

\* Every outbound call eventually succeeds or fails: axios settles each
\* promise, with the response or with an error (a timeout at the latest).
\* Nothing obliges a further request to arrive.
CallsSettle ==
  \A r \in Reqs :
    /\ WF_vars(\E ok \in BOOLEAN : \E u \in {LookupUserIds[r]} : EntityResponse(r, ok, u))
    /\ WF_vars(\E ok \in BOOLEAN : \E items \in UserCollections :
                 UsersResponse(r, ok, items))
    /\ WF_vars(\E ok \in BOOLEAN : SlackResponse(r, ok))

\* Whether and how a request is answered depends on the shape of its payload
\* (its type, whether it has sys, sys.space and sys.updatedBy), not on what its
\* fields hold: the behaviours checked for eventual answers take one payload
\* of each shape.
ShapeRequests(n) ==
  { rq \in Requests(n) : rq.body \in EntryBodies(n) => rq.body.fields = TwoFields }

FairNext ==
  \/ \E r \in Reqs : \E rq \in ShapeRequests(r) : Receive(r, rq)
  \/ \E r \in Reqs : \E ok \in BOOLEAN : \E u \in {LookupUserIds[r]} :
       EntityResponse(r, ok, u)
  \/ \E r \in Reqs : \E ok \in BOOLEAN : \E items \in UserCollections :
       UsersResponse(r, ok, items)
  \/ \E r \in Reqs : \E ok \in BOOLEAN : SlackResponse(r, ok)

FairSpec == Init /\ [][FairNext]_vars /\ CallsSettle

----------------------------------------------------------------------------
(* Vocabulary of the properties *)

Received(r)   == pc[r] # "idle"
Sys(r)        == request[r].body.sys
WellFormed(r) == Received(r) /\ Sys(r).defined /\ Sys(r).space # Undefined
\* r's payload has sys.type 'Entry' / some other sys.type
EntryType(r)  == Received(r) /\ Sys(r).defined /\ Sys(r).type = "Entry"
OtherType(r)  == WellFormed(r) /\ Sys(r).type # "Entry"

CallsOfKind(r, kind) == {i \in DOMAIN calls[r] : calls[r][i].kind = kind}
Pending(r)           == {i \in DOMAIN calls[r] : calls[r][i].status = "pending"}
CallEnded(r, kind, outcome) ==
  \E i \in CallsOfKind(r, kind) : calls[r][i].status = outcome
InFlight(r) == pc[r] \in {"awaitEntity", "awaitUsers", "awaitSlack"}

----------------------------------------------------------------------------
(* C1 *)

\* C1: a request whose sys.type is not 'Entry' issues no outbound call (no
\* entity lookup, no users lookup, no POST) and is answered 200.
C1_NonEntryNoCalls ==
  \A r \in Reqs :
    OtherType(r) => /\ calls[r] = << >>
                    /\ posted[r] = << >>
                    /\ response[r].status = 200

\* An asset notification was answered while an entry's chain is waiting.
C1_Witness ==
  \E r, q \in Reqs :
    /\ OtherType(r) /\ Sys(r).type = "Asset" /\ response[r].status = 200
    /\ InFlight(q)

----------------------------------------------------------------------------
(* C2 *)

\* C2: an Entry request is answered 200 exactly when its POST to slack ended
\* well, and then exactly one POST was issued for it; when the POST failed the
\* answer is 500 and not the success text.
C2_SuccessIffDelivered ==
  \A r \in Reqs :
    EntryType(r) =>
      /\ response[r].status = 200 <=> CallEnded(r, "slack", "ok")
      /\ response[r].status = 200 =>
           /\ Cardinality(CallsOfKind(r, "slack")) = 1
           /\ Len(posted[r]) = 1
           /\ response[r].text = "Slack post successful!"
      /\ CallEnded(r, "slack", "failed") =>
           /\ response[r].status = 500
           /\ response[r].text # "Slack post successful!"

\* One Entry request was delivered and answered 200, another one's POST failed.
C2_Witness ==
  \E r, q \in Reqs :
    /\ EntryType(r) /\ response[r].status = 200 /\ CallEnded(r, "slack", "ok")
    /\ EntryType(q) /\ response[q].status = 500 /\ CallEnded(q, "slack", "failed")

----------------------------------------------------------------------------
(* C3, C4 *)

\* What a request handled alone delivers (spec 4.1 step 4), written out
\* independently of the operators above.
AllUsers     == UNION { {c[k] : k \in DOMAIN c} : c \in UserCollections }
DisplayNames == { u.firstName \o " " \o u.lastName : u \in AllUsers }

ExpectedField(f) ==
  IF f.locales.enUS = Undefined
  THEN [title |-> "field." \o f.key, short |-> FALSE]
  ELSE [title |-> "field." \o f.key, value |-> f.locales.enUS, short |-> FALSE]

ExpectedFields(rq) ==
  << [title |-> "Action applied to Entry", value |-> rq.webhook_topic,
      short |-> FALSE] >>
  \o [k \in 1 .. Len(rq.body.fields) |-> ExpectedField(rq.body.fields[k])]

ExpectedText(rq, name) ==
  "An Entry has just been changed by " \o name
    \o ". The full Entry is below in the fields. Here is the link to the entry: "
    \o "<https://app.contentful.com/spaces/" \o rq.body.sys.space
    \o "/entries/" \o rq.body.sys.id \o "|Link to Entry>"

ExpectedMessage(rq, name) ==
  [username |-> "Webhook: " \o rq.webhook_name,
   icon_emoji |-> ":contentful:",
   attachments |-> << [fallback |-> ExpectedText(rq, name),
                       pretext  |-> ExpectedText(rq, name),
                       color    |-> "#000000",
                       fields   |-> ExpectedFields(rq)] >>]

\* C3: the message POSTed for a request is composed from that request's own
\* payload and headers only: it is the message the request yields alone.
C3_Isolation ==
  \A r \in Reqs : \A i \in DOMAIN posted[r] :
    \E name \in DisplayNames : posted[r][i] = ExpectedMessage(request[r], name)

\* C4: an Entry request without sys.updatedBy issues exactly one GET, its
\* first call, to spaces/{spaceId}/entries/{entityId} of its own payload.
C4_EntityLookupURL ==
  \A r \in Reqs :
    (EntryType(r) /\ WellFormed(r) /\ Sys(r).updatedBy = Undefined) =>
      /\ Cardinality(CallsOfKind(r, "entity")) = 1
      /\ calls[r][1].kind = "entity"
      /\ calls[r][1].url = "https://api.contentful.com/spaces/" \o Sys(r).space
                             \o "/entries/" \o Sys(r).id

----------------------------------------------------------------------------
(* C5 *)

\* C5: an Entry request that carries sys.updatedBy issues no entity lookup,
\* and the id its chain passes to the user-name lookup is its own
\* sys.updatedBy.sys.id, whatever other requests arrive meanwhile.
C5_IdFromBody ==
  \A r \in Reqs :
    (EntryType(r) /\ WellFormed(r) /\ Sys(r).updatedBy # Undefined) =>
      /\ CallsOfKind(r, "entity") = {}
      /\ userId[r] = Sys(r).updatedBy
      /\ calls[r] # << >> /\ calls[r][1].kind = "users"

\* Such a request is past its users lookup, and a later request without
\* sys.updatedBy has replaced the module-level body meanwhile.
C5_Witness ==
  \E r, q \in Reqs :
    /\ r < q
    /\ EntryType(r) /\ WellFormed(r) /\ Sys(r).updatedBy # Undefined
    /\ CallEnded(r, "users", "ok")
    /\ EntryType(q) /\ WellFormed(q) /\ Sys(q).updatedBy = Undefined
    /\ body = request[q].body

----------------------------------------------------------------------------
(* C6 *)

\* C6: the outbound calls of one request are strictly sequential: a call is
\* issued only when the one before it ended well, the users lookup only once
\* the user id is resolved, the POST only after the users lookup, at most one
\* call is in flight, and the caller is answered only when the POST has ended
\* or a step has failed.
C6_Sequential ==
  \A r \in Reqs :
    /\ Cardinality(Pending(r)) <= 1
    /\ \A i \in DOMAIN calls[r] :
         /\ i > 1 => calls[r][i - 1].status = "ok"
         /\ calls[r][i].kind = "entity" => i = 1
         /\ calls[r][i].kind = "users" =>
              /\ userId[r] # Undefined
              /\ IF i = 1 THEN Sys(r).updatedBy # Undefined
                          ELSE calls[r][i - 1].kind = "entity"
         /\ calls[r][i].kind = "slack" => i > 1 /\ calls[r][i - 1].kind = "users"
    /\ (EntryType(r) /\ response[r].status # 0) =>
         /\ Pending(r) = {}
         /\ CallEnded(r, "slack", "ok") \/ logged[r]

\* A request went through all three calls, one after the other, and was
\* answered, while another request is between two of its calls.
C6_Witness ==
  \E r, q \in Reqs :
    /\ Len(calls[r]) = 3 /\ \A i \in 1 .. 3 : calls[r][i].status = "ok"
    /\ response[r].status = 200
    /\ Len(calls[q]) = 2 /\ calls[q][1].status = "ok" /\ calls[q][2].status = "pending"

----------------------------------------------------------------------------
(* C7 *)

\* C7: no retries and no partial delivery: each of the three calls is issued
\* at most once per request; a failed call is the request's last call and the
\* request ends with 500; after a failed lookup or a lookup miss nothing is
\* POSTed.
C7_NoRetryNoPartial ==
  \A r \in Reqs :
    /\ \A kind \in {"entity", "users", "slack"} :
         Cardinality(CallsOfKind(r, kind)) <= 1
    /\ Len(posted[r]) = Cardinality(CallsOfKind(r, "slack"))
    /\ \A i \in DOMAIN calls[r] :
         calls[r][i].status = "failed" =>
           /\ i = Len(calls[r])
           /\ response[r].status = 500
           /\ pc[r] = "done"
    /\ (CallEnded(r, "entity", "failed") \/ CallEnded(r, "users", "failed") \/ logged[r]) =>
         /\ response[r].status = 500
         /\ pc[r] = "done"
         /\ Pending(r) = {}
    /\ (CallEnded(r, "entity", "failed") \/ CallEnded(r, "users", "failed")) =>
         posted[r] = << >>

\* One request failed at the entity lookup, another at the users lookup that
\* followed a good entity lookup; both ended with 500.
C7_Witness ==
  \E r, q \in Reqs :
    /\ CallEnded(r, "entity", "failed") /\ response[r].status = 500
    /\ CallEnded(q, "entity", "ok") /\ CallEnded(q, "users", "failed")
    /\ response[q].status = 500

----------------------------------------------------------------------------
(* C8 *)

\* C8: when the users collection returned for a request holds no user with
\* the resolved id, nothing is POSTed for the request and it ends with 500.
C8_LookupMiss ==
  \A r \in Reqs :
    miss[r] => /\ posted[r] = << >>
               /\ CallsOfKind(r, "slack") = {}
               /\ response[r].status = 500
               /\ logged[r]

\* A request whose id came from the entity lookup missed in a users
\* collection that was returned to it.
C8_Witness ==
  \E r \in Reqs :
    /\ miss[r] /\ CallEnded(r, "entity", "ok") /\ CallEnded(r, "users", "ok")
    /\ userId[r] = LookupUserIds[r] /\ response[r].status = 500

----------------------------------------------------------------------------
(* C9, C10 *)

\* No request has arrived after r.
LastArrived(r) == \A q \in Reqs : q > r => pc[q] = "idle"

\* C9: for an Entry request after whose receipt no other request has arrived,
\* the POSTed field list is the 'Action applied to Entry' field followed by one
\* field per key of its fields map: 1 + (number of keys) entries.
C9_FieldList ==
  \A r \in Reqs : \A i \in DOMAIN posted[r] :
    LastArrived(r) =>
      /\ posted[r][i].attachments[1].fields = ExpectedFields(request[r])
      /\ Len(posted[r][i].attachments[1].fields) = 1 + Len(request[r].body.fields)

\* A request failed: its payload reads threw, one of its calls failed, or its
\* user was not in the users collection.
Failed(r) ==
  \/ pc[r] = "uncaught"
  \/ \E i \in DOMAIN calls[r] : calls[r][i].status = "failed"
  \/ miss[r]

\* C10: every failure, malformed input included, reaches the catch at the end
\* of the promise chain, which answers 500 and logs.
C10_AllFailuresCaught ==
  \A r \in Reqs : Failed(r) => logged[r] /\ response[r].status = 500

----------------------------------------------------------------------------
(* C11 *)

\* Positions of the users of r's users response that have the resolved id.
Matches(r) == {k \in DOMAIN usersData[r] : usersData[r][k].id = userId[r]}

\* The first of them.
FirstMatch(r) ==
  usersData[r][CHOOSE k \in Matches(r) : \A j \in Matches(r) : k <= j]

NamePrefix(name) ==
  "An Entry has just been changed by " \o name \o ". The full Entry is below"

\* C11: a message is delivered for a request only when its users response
\* held a user with the resolved id, and the name in the message's pretext
\* and fallback is firstName + ' ' + lastName of the first such user.
C11_DisplayName ==
  \A r \in Reqs : \A i \in DOMAIN posted[r] :
    /\ Matches(r) # {}
    /\ LET prefix == NamePrefix(FirstMatch(r).firstName \o " " \o FirstMatch(r).lastName)
           att    == posted[r][i].attachments[1]
       IN  /\ Len(att.pretext) >= Len(prefix)
           /\ SubSeq(att.pretext, 1, Len(prefix)) = prefix
           /\ att.fallback = att.pretext

\* A message was delivered for a request whose users response held two users
\* with the resolved id, after another user.
C11_Witness ==
  \E r \in Reqs :
    /\ posted[r] # << >>
    /\ Cardinality(Matches(r)) = 2
    /\ 1 \notin Matches(r)
    /\ FirstMatch(r).firstName = "Ada"

----------------------------------------------------------------------------
(* C12 *)

\* Every request received besides r is well-formed and of another type than
\* Entry: the type filter answered it.
OnlyFilteredOthers(r) == \A q \in Reqs \ {r} : Received(q) => OtherType(q)

FirstMatchName(r) == FirstMatch(r).firstName \o " " \o FirstMatch(r).lastName

\* C12: filtered-out requests leave an Entry request's pipeline alone: when
\* all other requests received are non-Entry ones, the message delivered for
\* the Entry request is the one it yields alone (its own field entries, the
\* label 'Link to Entry').
C12_FilteredRequestsLeaveNoTrace ==
  \A r \in Reqs : \A i \in DOMAIN posted[r] :
    OnlyFilteredOthers(r) =>
      posted[r][i] = ExpectedMessage(request[r], FirstMatchName(r))

----------------------------------------------------------------------------
(* C13 *)

Titles(fields) == {fields[k].title : k \in DOMAIN fields}

\* C13: the outbound message is built fresh for each request: no two requests
\* POST from the same message object (an object is known by its username,
\* which is set once when the object is created, from the webhook name that
\* only its creating request has), no delivered message holds the same
\* 'field.<key>' entry twice, and none holds more than 1 + (number of keys of
\* one payload's fields map) entries.
C13_FreshMessage ==
  /\ \A r, q \in Reqs : \A i \in DOMAIN posted[r] : \A j \in DOMAIN posted[q] :
       r # q => posted[r][i].username # posted[q][j].username
  /\ \A r \in Reqs : \A i \in DOMAIN posted[r] :
       LET fields == posted[r][i].attachments[1].fields
       IN  /\ Cardinality(Titles(fields)) = Len(fields)
           /\ \E q \in Reqs :
                Received(q) /\ Len(fields) <= 1 + Len(request[q].body.fields)

----------------------------------------------------------------------------
(* C14 *)

\* C14: the users lookup of a request goes to the request's own space,
\* spaces/{spaceId}/users/, also when another Entry request for another space
\* is received while the request's entity lookup is pending.
C14_UsersLookupOwnSpace ==
  \A r \in Reqs : \A i \in CallsOfKind(r, "users") :
    calls[r][i].url = "https://api.contentful.com/spaces/" \o Sys(r).space \o "/users/"

----------------------------------------------------------------------------
(* C15 *)

Responded(r) == response[r].status \in {200, 500}

\* C15: every well-formed request receives exactly one response: once a
\* response is sent to a request no step sends it another, and, every outbound
\* call settling, each well-formed request is eventually answered 200 or 500.
C15_ExactlyOneResponse ==
  /\ [][\A r \in Reqs : response[r] # NoResponse => response'[r] = response[r]]_vars
  /\ \A r \in Reqs : [](WellFormed(r) => <>Responded(r))

\* A filtered request was answered 200 at once and an Entry request, received
\* before it, was answered 500 after its user was not found.
C15_Witness ==
  \E r, q \in Reqs :
    /\ r < q
    /\ EntryType(r) /\ WellFormed(r) /\ miss[r] /\ response[r].status = 500
    /\ OtherType(q) /\ response[q].status = 200

----------------------------------------------------------------------------
(* C16 *)

\* r's body lacks sys or sys.space.
Malformed(r) == Received(r) /\ ~WellFormed(r)

\* Every request received besides r is malformed.
OnlyMalformedOthers(r) == \A q \in Reqs \ {r} : Received(q) => Malformed(q)

\* C16: a malformed request issues no outbound call and does not change the
\* outcome of another request: an Entry request beside which only malformed
\* requests were received ends as it does alone, with 500 only when one of
\* its calls failed or its user was not found, and else with its own message
\* delivered.
C16_MalformedNonInterference ==
  /\ \A q \in Reqs : Malformed(q) => calls[q] = << >> /\ posted[q] = << >>
  /\ \A r \in Reqs :
       (EntryType(r) /\ WellFormed(r) /\ OnlyMalformedOthers(r)) =>
         /\ \A i \in DOMAIN posted[r] :
              posted[r][i] = ExpectedMessage(request[r], FirstMatchName(r))
         /\ (CallEnded(r, "users", "ok") /\ ~miss[r]) => posted[r] # << >>
         /\ response[r].status = 500 =>
              \/ \E i \in DOMAIN calls[r] : calls[r][i].status = "failed"
              \/ miss[r]

====
